---- MODULE Spec2Model ----
(***************************************************************************)
(* The cart-to-order core of the AIMS canteen server (server.js, kept in   *)
(* src/unnamed/part_003) over the MySQL schema of db_schema.sql.           *)
(*                                                                         *)
(* Every route handler is an async function: between two awaited db.query  *)
(* calls its code runs without interruption (Node's single thread), and at *)
(* every await another request's handler may run.  A handler is therefore  *)
(* a process whose steps are its queries, each taken together with the     *)
(* synchronous code that follows it up to the next await.                  *)
(*                                                                         *)
(* Money is DECIMAL(10,2) in the schema: it is held here in cents.  The    *)
(* handlers sum parseFloat(unit_price) * quantity in binary floating point *)
(* and round with toFixed(2) or by storing into DECIMAL(10,2); for the     *)
(* amounts of this model the floating-point error is far below half a      *)
(* cent, so the rounded result is the exact sum of cents.                  *)
(***************************************************************************)
EXTENDS Integers, Sequences, FiniteSets, TLC

\* ------------------------------------------------------------- bounds
MaxReq == 3          \* requests served in one behaviour
MaxQty == 2          \* largest quantity a request body carries

Users == {1, 2}      \* users.user_id of the two seeded users
Products == {1, 2}   \* products.item_id of the rows of the products table
Prices == {4500, 8000}   \* prices an admin sets, in cents (45.00 and 80.00)
Slots == {1, 2}      \* requests that can be in flight together
NoSuchItem == Cardinality(Products) + 1   \* an item_id with no row in products

VARIABLES
    products,        \* item_id -> [price, available]          (table products)
    carts,           \* sequence of [user_id]; cart_id = index (table carts)
    cart_items,      \* cart_item_id -> row                    (table cart_items)
    next_cart_item_id,   \* AUTO_INCREMENT counter of cart_items
    orders,          \* sequence of rows; order_id = index     (table orders)
    order_items,     \* sequence of rows; order_item_id = index (table order_items)
    req,             \* slot -> the request handler running in it, with its locals
    nreq,            \* requests started so far
    concurrent,      \* FALSE: requests are served one after the other
    clients,         \* the users who send requests
    hist,            \* history: cart_item_id -> what the add requests asked of the line
    users,           \* user_id -> [is_admin, password_hash]  (table users)
    tokens,          \* the claims of the JWTs signed so far, each held by its user
    password_resets, \* token -> [email, used, expired]       (table password_resets)
    reset_log,       \* history: every reset token generated -> the password changes made with it
    categories,      \* category_name -> [is_active]          (table categories)
    product_category \* item_id -> category                   (products.category)

accounts == <<users, tokens, password_resets, reset_log>>
catalog == <<categories, product_category>>

vars == <<products, carts, cart_items, next_cart_item_id, orders, order_items,
          req, nreq, concurrent, clients, hist, accounts, catalog>>

\* ------------------------------------------------------------- request bodies
\* A JSON value of a request body: an integer, a non-numeric string, or absent.
JsInt(n) == [t |-> "int", v |-> n]
JsUndefined == [t |-> "undefined", v |-> 0]
JsText == [t |-> "string", v |-> 0]
BodyQuantities == {JsInt(n) : n \in (0 - 1)..MaxQty} \cup {JsUndefined, JsText}

\* parseInt(x): the integer, or NaN for undefined and for a non-numeric string.
parseInt(x) == IF x.t = "int" THEN [nan |-> FALSE, v |-> x.v] ELSE [nan |-> TRUE, v |-> 0]

Max(a, b) == IF a >= b THEN a ELSE b

\* parseInt(quantity) || 1 alone, without the Math.max(1, ...) around it.
addQtyUnclamped(quantity) ==
    LET p == parseInt(quantity)
    IN  IF p.nan \/ p.v = 0 THEN 1 ELSE p.v

\* Math.max(1, parseInt(quantity) || 1): NaN and 0 are falsy.
addQty(quantity) ==
    LET p == parseInt(quantity)
    IN  IF p.nan \/ p.v = 0 THEN 1 ELSE Max(1, p.v)

\* Number.prototype.toFixed(2) of an amount of c cents: "W.FF" as <<W, FF>>.
toFixed2(c) == <<c \div 100, c % 100>>

\* ------------------------------------------------------------- tables
Restrict(f, S) == [x \in S |-> f[x]]

Min(S) == CHOOSE x \in S : \A y \in S : x <= y

\* SELECT cart_id FROM carts WHERE user_id = ?
cartsOf(user_id) == {c \in 1..Len(carts) : carts[c].user_id = user_id}

\* SELECT ... FROM cart_items WHERE cart_id = ?
linesOf(cart_id) == {i \in DOMAIN cart_items : cart_items[i].cart_id = cart_id}

\* SELECT ... FROM cart_items WHERE cart_id = ? AND item_id = ?
linesFor(cart_id, item_id) == {i \in linesOf(cart_id) : cart_items[i].item_id = item_id}

\* A product query without its availability condition.
existingProduct(item_id) == item_id \in DOMAIN products

\* SELECT price FROM products WHERE item_id = ? AND available = 1
availableProduct(item_id) == item_id \in DOMAIN products /\ products[item_id].available = 1

RECURSIVE SumOver(_, _)
SumOver(f, S) ==
    IF S = {} THEN 0
    ELSE LET x == CHOOSE y \in S : TRUE
         IN  f[x].unit_price * f[x].quantity + SumOver(f, S \ {x})

\* ------------------------------------------------------------- handlers
NoRes == [status |-> 0, error |-> "", total |-> <<>>, id |-> 0, quantity |-> 0, deleted |-> FALSE]

Idle ==
    [kind |-> "idle", pc |-> "idle", user_id |-> 0,
     item_id |-> 0, cart_item_id |-> 0,
     qty |-> 0, cart_id |-> 0, unit_price |-> 0, asked |-> 0, price0 |-> 0,
     existing |-> [cart_item_id |-> 0, quantity |-> 0],
     items |-> <<>>, pending |-> {}, total |-> 0, order_id |-> 0,
     failed |-> FALSE, res |-> NoRes,
     auth |-> "", email |-> 0, token |-> 0, password |-> "", category |-> ""]

Quiet(h) == req[h].pc \in {"idle", "done"}

\* A new request takes the lowest free slot; served one at a time unless concurrent.
CanStart(h) ==
    /\ nreq < MaxReq
    /\ Quiet(h)
    /\ \A k \in Slots : k < h => ~Quiet(k)
    /\ concurrent \/ \A k \in Slots : Quiet(k)

\* The handler has sent its response and returned: its locals are gone.
Finish(r, res) ==
    [Idle EXCEPT !.kind = r.kind, !.user_id = r.user_id, !.pc = "done", !.res = res]

\* res.status(s).json({error: e}) and return
Reply(r, s, e) == Finish(r, [NoRes EXCEPT !.status = s, !.error = e])

DbUnchanged == UNCHANGED <<products, carts, cart_items, next_cart_item_id, orders, order_items>>

\* Where a handler goes on once getOrCreateCart has returned.
afterCart(kind) ==
    CASE kind = "view" -> "viewItems"
      [] kind = "add" -> "addProduct"
      [] kind = "setQuantity" -> "setVerify"
      [] kind = "remove" -> "removeDelete"
      [] kind = "clear" -> "clearDelete"

\* getOrCreateCart, its SELECT: the first row's cart_id, or on to the INSERT.
GetOrCreateCartSelect(h) ==
    /\ req[h].pc = "cartSelect"
    /\ LET rows == cartsOf(req[h].user_id)
       IN  req' = [req EXCEPT ![h] =
                IF rows # {}
                THEN [@ EXCEPT !.cart_id = Min(rows), !.pc = afterCart(req[h].kind)]
                ELSE [@ EXCEPT !.pc = "cartInsert"]]
    /\ DbUnchanged
    /\ UNCHANGED <<nreq, concurrent, clients, accounts, catalog, hist>>

\* getOrCreateCart, its INSERT INTO carts (user_id): returns result.insertId.
GetOrCreateCartInsert(h) ==
    /\ req[h].pc = "cartInsert"
    /\ carts' = Append(carts, [user_id |-> req[h].user_id])
    /\ req' = [req EXCEPT ![h] = [@ EXCEPT !.cart_id = Len(carts) + 1, !.pc = afterCart(req[h].kind)]]
    /\ UNCHANGED <<products, cart_items, next_cart_item_id, orders, order_items>>
    /\ UNCHANGED <<nreq, concurrent, clients, accounts, catalog, hist>>

\* ------------------------------------------------------------- GET /api/cart
StartView(h, u) ==
    /\ CanStart(h)
    /\ req' = [req EXCEPT ![h] = [Idle EXCEPT !.kind = "view", !.pc = "cartSelect", !.user_id = u]]
    /\ nreq' = nreq + 1
    /\ DbUnchanged
    /\ UNCHANGED <<concurrent, clients, accounts, catalog, hist>>

\* SELECT ... FROM cart_items ci JOIN products p ON ci.item_id = p.item_id
\*  WHERE ci.cart_id = ? AND p.available = 1
viewRows(cart_id) ==
    {i \in linesOf(cart_id) :
        /\ cart_items[i].item_id \in DOMAIN products
        /\ products[cart_items[i].item_id].available = 1}

\* let total = 0; items.forEach(item => total += parseFloat(item.unit_price) * item.quantity)
viewTotal(cart_id) == SumOver(cart_items, viewRows(cart_id))

\* The items query and res.json({cart_id, items, total: total.toFixed(2)}).
ViewItems(h) ==
    /\ req[h].pc = "viewItems"
    /\ req' = [req EXCEPT ![h] =
            Finish(@, [NoRes EXCEPT !.status = 200, !.id = req[h].cart_id,
                                    !.total = toFixed2(viewTotal(req[h].cart_id))])]
    /\ DbUnchanged
    /\ UNCHANGED <<nreq, concurrent, clients, accounts, catalog, hist>>

\* ------------------------------------------------------------- POST /api/cart
\* What an add request asks for, when it asks within the contract (an integer >= 1).
inContract(quantity) == quantity.t = "int" /\ quantity.v >= 1

\* The history of a line after one more add request r was applied to it: the price
\* of the product when the first request arrived, and the sum of the quantities
\* the request bodies asked for, as long as every request asked within the
\* contract (r.asked is the body's quantity then, and 0 otherwise) and no
\* setQuantity touched the line (pure).
Asked(line, r) ==
    IF line.pure /\ r.asked >= 1
    THEN [line EXCEPT !.sum = @ + r.asked]
    ELSE [line EXCEPT !.sum = 0, !.pure = FALSE]

\* item = 0 stands for a body without item_id.
StartAdd(h, u, item, quantity) ==
    /\ CanStart(h)
    /\ LET r == [Idle EXCEPT !.kind = "add", !.user_id = u, !.item_id = item]
       IN  req' = [req EXCEPT ![h] =
                IF item = 0
                THEN Reply(r, 400, "Item ID is required")
                ELSE [r EXCEPT !.pc = "cartSelect", !.qty = addQty(quantity),
                               !.asked = IF inContract(quantity) THEN quantity.v ELSE 0,
                               !.price0 = IF item \in DOMAIN products
                                          THEN products[item].price ELSE 0]]
    /\ nreq' = nreq + 1
    /\ DbUnchanged
    /\ UNCHANGED <<concurrent, clients, accounts, catalog, hist>>

\* Verify product exists and is available; const unit_price = products[0].price.
\* The record of a request answered 404 keeps the item_id it asked for.
AddProduct(h) ==
    /\ req[h].pc = "addProduct"
    /\ req' = [req EXCEPT ![h] =
            IF availableProduct(req[h].item_id)
            THEN [@ EXCEPT !.unit_price = products[req[h].item_id].price, !.pc = "addExisting"]
            ELSE [Reply(@, 404, "Product not found or unavailable") EXCEPT
                        !.item_id = req[h].item_id]]
    /\ DbUnchanged
    /\ UNCHANGED <<nreq, concurrent, clients, accounts, catalog, hist>>

\* Check if item already exists in cart: existing[0] is the first matching row.
AddExisting(h) ==
    /\ req[h].pc = "addExisting"
    /\ LET existing == linesFor(req[h].cart_id, req[h].item_id)
       IN  req' = [req EXCEPT ![h] =
                IF existing # {}
                THEN [@ EXCEPT !.existing = [cart_item_id |-> Min(existing),
                                             quantity |-> cart_items[Min(existing)].quantity],
                               !.pc = "addUpdate"]
                ELSE [@ EXCEPT !.pc = "addInsert"]]
    /\ DbUnchanged
    /\ UNCHANGED <<nreq, concurrent, clients, accounts, catalog, hist>>

\* A merge that overwrites the quantity instead of adding to it.
newQtyOverwrites(existing_quantity, qty) == qty

\* const newQty = existing[0].quantity + qty
newQty(existing_quantity, qty) == existing_quantity + qty

\* An UPDATE that also refreshes unit_price from the product's current price.
updateQuantityAndPrice(row, quantity) ==
    [row EXCEPT !.quantity = quantity, !.unit_price = products[row.item_id].price]

\* UPDATE cart_items SET quantity = ? WHERE cart_item_id = ?
updateQuantity(row, quantity) == [row EXCEPT !.quantity = quantity]

\* The merge: the UPDATE (of no row, when the line is gone by now) and the reply.
AddUpdate(h) ==
    /\ req[h].pc = "addUpdate"
    /\ LET id == req[h].existing.cart_item_id
           q == newQty(req[h].existing.quantity, req[h].qty)
       IN  /\ cart_items' = IF id \in DOMAIN cart_items
                            THEN [cart_items EXCEPT ![id] = updateQuantity(@, q)]
                            ELSE cart_items
           /\ hist' = IF id \in DOMAIN hist THEN [hist EXCEPT ![id] = Asked(@, req[h])] ELSE hist
           /\ req' = [req EXCEPT ![h] =
                    Finish(@, [NoRes EXCEPT !.status = 200, !.id = id, !.quantity = q])]
    /\ UNCHANGED <<products, carts, next_cart_item_id, orders, order_items>>
    /\ UNCHANGED <<nreq, concurrent, clients, accounts, catalog>>

\* INSERT INTO cart_items (cart_id, item_id, quantity, unit_price)
newCartItem(cart_id, item_id, qty, unit_price) ==
    [cart_id |-> cart_id, item_id |-> item_id, quantity |-> qty, unit_price |-> unit_price]

\* Add new item to cart, and the 201 reply with result.insertId.
AddInsert(h) ==
    /\ req[h].pc = "addInsert"
    /\ LET id == next_cart_item_id
       IN  /\ cart_items' = cart_items @@
                  (id :> newCartItem(req[h].cart_id, req[h].item_id, req[h].qty, req[h].unit_price))
           /\ next_cart_item_id' = id + 1
           /\ hist' = hist @@ (id :> Asked([price0 |-> req[h].price0, sum |-> 0, pure |-> TRUE],
                                            req[h]))
           /\ req' = [req EXCEPT ![h] =
                    Finish(@, [NoRes EXCEPT !.status = 201, !.id = id, !.quantity = req[h].qty])]
    /\ UNCHANGED <<products, carts, orders, order_items>>
    /\ UNCHANGED <<nreq, concurrent, clients, accounts, catalog>>

\* ------------------------------------------------------------- PUT /api/cart/:cart_item_id
StartSetQuantity(h, u, id, quantity) ==
    /\ CanStart(h)
    /\ LET r == [Idle EXCEPT !.kind = "setQuantity", !.user_id = u, !.cart_item_id = id]
       IN  req' = [req EXCEPT ![h] =
                IF quantity.t = "undefined" THEN Reply(r, 400, "Quantity is required")
                ELSE IF parseInt(quantity).nan THEN Reply(r, 400, "Quantity must be a number")
                ELSE [r EXCEPT !.pc = "cartSelect", !.qty = parseInt(quantity).v]]
    /\ nreq' = nreq + 1
    /\ DbUnchanged
    /\ UNCHANGED <<concurrent, clients, accounts, catalog, hist>>

\* A query that finds the line whatever cart it is in.
anyLine(cart_item_id, cart_id) == cart_item_id \in DOMAIN cart_items

\* ... FROM cart_items WHERE cart_item_id = ? AND cart_id = ? finds a row.
ownLine(cart_item_id, cart_id) == cart_item_id \in linesOf(cart_id)

\* A branch that deletes on zero only.
deletesLineOnZero(qty) == qty = 0

\* if (qty <= 0)
deletesLine(qty) == qty <= 0

\* Verify cart item belongs to user, then branch on qty <= 0.  The record of a
\* request answered 404 keeps the cart_item_id it asked for.
SetVerify(h) ==
    /\ req[h].pc = "setVerify"
    /\ req' = [req EXCEPT ![h] =
            IF ~ownLine(req[h].cart_item_id, req[h].cart_id)
            THEN [Reply(@, 404, "Cart item not found") EXCEPT
                    !.cart_item_id = req[h].cart_item_id]
            ELSE IF deletesLine(req[h].qty) THEN [@ EXCEPT !.pc = "setDelete"]
            ELSE [@ EXCEPT !.pc = "setUpdate"]]
    /\ DbUnchanged
    /\ UNCHANGED <<nreq, concurrent, clients, accounts, catalog, hist>>

\* DELETE FROM cart_items WHERE cart_item_id = ?
SetDelete(h) ==
    /\ req[h].pc = "setDelete"
    /\ cart_items' = Restrict(cart_items, DOMAIN cart_items \ {req[h].cart_item_id})
    /\ hist' = Restrict(hist, DOMAIN hist \ {req[h].cart_item_id})
    /\ req' = [req EXCEPT ![h] = Finish(@, [NoRes EXCEPT !.status = 200, !.deleted = TRUE])]
    /\ UNCHANGED <<products, carts, next_cart_item_id, orders, order_items>>
    /\ UNCHANGED <<nreq, concurrent, clients, accounts, catalog>>

\* UPDATE cart_items SET quantity = ? WHERE cart_item_id = ?
SetUpdate(h) ==
    /\ req[h].pc = "setUpdate"
    /\ LET id == req[h].cart_item_id
       IN  /\ cart_items' = IF id \in DOMAIN cart_items
                            THEN [cart_items EXCEPT ![id] = updateQuantity(@, req[h].qty)]
                            ELSE cart_items
           /\ hist' = IF id \in DOMAIN hist
                      THEN [hist EXCEPT ![id] = [@ EXCEPT !.sum = 0, !.pure = FALSE]]
                      ELSE hist
    /\ req' = [req EXCEPT ![h] = Finish(@, [NoRes EXCEPT !.status = 200, !.quantity = req[h].qty])]
    /\ UNCHANGED <<products, carts, next_cart_item_id, orders, order_items>>
    /\ UNCHANGED <<nreq, concurrent, clients, accounts, catalog>>

\* ------------------------------------------------------------- DELETE /api/cart/:cart_item_id
StartRemove(h, u, id) ==
    /\ CanStart(h)
    /\ req' = [req EXCEPT ![h] =
            [Idle EXCEPT !.kind = "remove", !.pc = "cartSelect", !.user_id = u, !.cart_item_id = id]]
    /\ nreq' = nreq + 1
    /\ DbUnchanged
    /\ UNCHANGED <<concurrent, clients, accounts, catalog, hist>>

\* DELETE FROM cart_items WHERE cart_item_id = ? AND cart_id = ?, and 404 when
\* result.affectedRows === 0.
RemoveDelete(h) ==
    /\ req[h].pc = "removeDelete"
    /\ LET hit == IF ownLine(req[h].cart_item_id, req[h].cart_id)
                  THEN {req[h].cart_item_id} ELSE {}
       IN  /\ cart_items' = Restrict(cart_items, DOMAIN cart_items \ hit)
           /\ hist' = Restrict(hist, DOMAIN hist \ hit)
           /\ req' = [req EXCEPT ![h] =
                    IF hit = {}
                    THEN [Reply(@, 404, "Cart item not found") EXCEPT
                            !.cart_item_id = req[h].cart_item_id]
                    ELSE Finish(@, [NoRes EXCEPT !.status = 200])]
    /\ UNCHANGED <<products, carts, next_cart_item_id, orders, order_items>>
    /\ UNCHANGED <<nreq, concurrent, clients, accounts, catalog>>

\* ------------------------------------------------------------- DELETE /api/cart
StartClear(h, u) ==
    /\ CanStart(h)
    /\ req' = [req EXCEPT ![h] = [Idle EXCEPT !.kind = "clear", !.pc = "cartSelect", !.user_id = u]]
    /\ nreq' = nreq + 1
    /\ DbUnchanged
    /\ UNCHANGED <<concurrent, clients, accounts, catalog, hist>>

\* DELETE FROM cart_items WHERE cart_id = ?
ClearDelete(h) ==
    /\ req[h].pc = "clearDelete"
    /\ cart_items' = Restrict(cart_items, DOMAIN cart_items \ linesOf(req[h].cart_id))
    /\ hist' = Restrict(hist, DOMAIN hist \ linesOf(req[h].cart_id))
    /\ req' = [req EXCEPT ![h] = Finish(@, [NoRes EXCEPT !.status = 200])]
    /\ UNCHANGED <<products, carts, next_cart_item_id, orders, order_items>>
    /\ UNCHANGED <<nreq, concurrent, clients, accounts, catalog>>

\* ------------------------------------------------------------- POST /api/order
StartCheckout(h, u) ==
    /\ CanStart(h)
    /\ req' = [req EXCEPT ![h] = [Idle EXCEPT !.kind = "checkout", !.pc = "orderCart", !.user_id = u]]
    /\ nreq' = nreq + 1
    /\ DbUnchanged
    /\ UNCHANGED <<concurrent, clients, accounts, catalog, hist>>

\* Get user's cart: 400 'No cart found' when the user has no carts row.
CheckoutCart(h) ==
    /\ req[h].pc = "orderCart"
    /\ LET cartRows == cartsOf(req[h].user_id)
       IN  req' = [req EXCEPT ![h] =
                IF cartRows = {}
                THEN Reply(@, 400, "No cart found")
                ELSE [@ EXCEPT !.cart_id = Min(cartRows), !.pc = "orderItems"]]
    /\ DbUnchanged
    /\ UNCHANGED <<nreq, concurrent, clients, accounts, catalog, hist>>

\* The items query with a join on the products that are still available.
checkoutAvailableRows(cart_id) ==
    LET rows == {i \in linesOf(cart_id) : availableProduct(cart_items[i].item_id)}
    IN  [i \in rows |->
            [item_id |-> cart_items[i].item_id, quantity |-> cart_items[i].quantity,
             unit_price |-> cart_items[i].unit_price]]

\* SELECT ci.item_id, ci.quantity, ci.unit_price FROM cart_items ci WHERE ci.cart_id = ?
\* The rows are kept under their cart_item_id, which stands for their place in
\* the result array.
checkoutRows(cart_id) ==
    [i \in linesOf(cart_id) |->
        [item_id |-> cart_items[i].item_id, quantity |-> cart_items[i].quantity,
         unit_price |-> cart_items[i].unit_price]]

\* Calculate total: items.forEach(item => total += parseFloat(item.unit_price) * item.quantity)
orderTotal(items) == SumOver(items, DOMAIN items)

\* A check that lets an empty cart through.
noItemsNever(items) == FALSE

\* if (items.length === 0)
noItems(items) == DOMAIN items = {}

\* The items query, 400 'Cart is empty' on no row, else the total.
CheckoutItems(h) ==
    /\ req[h].pc = "orderItems"
    /\ LET items == checkoutRows(req[h].cart_id)
       IN  req' = [req EXCEPT ![h] =
                IF noItems(items)
                THEN Reply(@, 400, "Cart is empty")
                ELSE [@ EXCEPT !.items = items, !.total = orderTotal(items), !.pc = "orderInsert"]]
    /\ DbUnchanged
    /\ UNCHANGED <<nreq, concurrent, clients, accounts, catalog, hist>>

\* INSERT INTO orders (user_id, total_amount, order_status) VALUES (?, ?, 'Placed')
\* order_date is DEFAULT CURRENT_TIMESTAMP: the time of the insert, told here by
\* the number of requests received so far.
newOrder(user_id, total) ==
    [user_id |-> user_id, total_amount |-> total, order_status |-> "Placed", order_date |-> nreq]

\* Create order; order_id = orderResult.insertId.  Promise.all then issues one
\* INSERT INTO order_items per item, all at once.
CheckoutOrder(h) ==
    /\ req[h].pc = "orderInsert"
    /\ orders' = Append(orders, newOrder(req[h].user_id, req[h].total))
    /\ req' = [req EXCEPT ![h] =
            [@ EXCEPT !.order_id = Len(orders) + 1, !.pending = DOMAIN req[h].items,
                      !.pc = "orderLines"]]
    /\ UNCHANGED <<products, carts, cart_items, next_cart_item_id, order_items>>
    /\ UNCHANGED <<nreq, concurrent, clients, accounts, catalog, hist>>

\* An order line that takes the product's price of the moment, not the cart line's.
newOrderItemAtProductPrice(order_id, item) ==
    [order_id |-> order_id, item_id |-> item.item_id, quantity |-> item.quantity,
     unit_price |-> products[item.item_id].price]

\* INSERT INTO order_items (order_id, item_id, quantity, unit_price)
newOrderItem(order_id, item) ==
    [order_id |-> order_id, item_id |-> item.item_id, quantity |-> item.quantity,
     unit_price |-> item.unit_price]

\* One of the pending order_items inserts completes.  When the last one has, the
\* Promise.all resolves and the handler goes on to clear the cart, unless one of
\* them had failed (the handler has replied 500 then).
CheckoutLine(h, i) ==
    /\ req[h].pc = "orderLines"
    /\ i \in req[h].pending
    /\ order_items' = Append(order_items, newOrderItem(req[h].order_id, req[h].items[i]))
    /\ req' = [req EXCEPT ![h] =
            IF req[h].pending = {i}
            THEN IF req[h].failed
                 THEN Finish(@, req[h].res)
                 ELSE [@ EXCEPT !.pending = {}, !.pc = "orderClear"]
            ELSE [@ EXCEPT !.pending = @ \ {i}]]
    /\ UNCHANGED <<products, carts, cart_items, next_cart_item_id, orders>>
    /\ UNCHANGED <<nreq, concurrent, clients, accounts, catalog, hist>>

\* Clear cart: DELETE FROM cart_items WHERE cart_id = ?, and the 201 reply.
CheckoutClear(h) ==
    /\ req[h].pc = "orderClear"
    /\ cart_items' = Restrict(cart_items, DOMAIN cart_items \ linesOf(req[h].cart_id))
    /\ hist' = Restrict(hist, DOMAIN hist \ linesOf(req[h].cart_id))
    /\ req' = [req EXCEPT ![h] =
            Finish(@, [NoRes EXCEPT !.status = 201, !.id = req[h].order_id,
                                    !.total = toFixed2(req[h].total)])]
    /\ UNCHANGED <<products, carts, next_cart_item_id, orders, order_items>>
    /\ UNCHANGED <<nreq, concurrent, clients, accounts, catalog>>

\* catch (err): res.status(500).json({ error: 'Failed to create order' })
orderFailure == [NoRes EXCEPT !.status = 500, !.error = "Failed to create order"]

\* The INSERT INTO orders or the DELETE FROM cart_items is rejected by the storage
\* (connection loss, constraint violation): db.query throws and the catch block
\* replies 500.  No handler wraps its queries in a transaction, so what was
\* written before stays.
CheckoutWriteFails(h) ==
    /\ req[h].pc \in {"orderInsert", "orderClear"}
    /\ req' = [req EXCEPT ![h] = Finish(@, orderFailure)]
    /\ DbUnchanged
    /\ UNCHANGED <<nreq, concurrent, clients, accounts, catalog, hist>>

\* One of the pending order_items inserts is rejected: the Promise.all rejects and
\* the catch block replies 500, while the other inserts, already issued, still
\* run to their end.
CheckoutLineFails(h, i) ==
    /\ req[h].pc = "orderLines"
    /\ i \in req[h].pending
    /\ req' = [req EXCEPT ![h] =
            IF req[h].pending = {i}
            THEN Finish(@, orderFailure)
            ELSE [@ EXCEPT !.pending = @ \ {i}, !.failed = TRUE, !.res = orderFailure]]
    /\ DbUnchanged
    /\ UNCHANGED <<nreq, concurrent, clients, accounts, catalog, hist>>

\* ------------------------------------------------------------- PUT /api/admin/products/:id
\* Update product: the synchronous validation (400 unless the body's price is a
\* positive number; a price of 0 is falsy) and one UPDATE of the row, if there
\* is one, with the body's price and available flag (1 when absent).
AdminUpdateProduct(id, price, available) ==
    /\ nreq < MaxReq
    /\ concurrent \/ \A k \in Slots : Quiet(k)
    /\ products' = IF price > 0 /\ id \in DOMAIN products
                   THEN [products EXCEPT ![id] = [price |-> price, available |-> available]]
                   ELSE products
    /\ nreq' = nreq + 1
    /\ UNCHANGED <<carts, cart_items, next_cart_item_id, orders, order_items>>
    /\ UNCHANGED <<req, concurrent, clients, accounts, catalog, hist>>

\* ------------------------------------------------------------- DELETE /api/admin/products/:id
\* cart_items.item_id and order_items.item_id are FOREIGN KEYs to products(item_id)
\* with no ON DELETE clause: the storage rejects the delete of a referenced row.
referenced(item_id) ==
    \/ \E i \in DOMAIN cart_items : cart_items[i].item_id = item_id
    \/ \E k \in 1..Len(order_items) : order_items[k].item_id = item_id

\* Delete product: DELETE FROM products WHERE item_id = ?.  The row goes unless a
\* cart line or an order line refers to it (db.query throws then, and the reply
\* is 500) or there is no such row (404).  Served while no other request is in
\* flight.
AdminDeleteProduct(id) ==
    /\ nreq < MaxReq
    /\ \A k \in Slots : Quiet(k)
    /\ products' = IF id \in DOMAIN products /\ ~referenced(id)
                   THEN Restrict(products, DOMAIN products \ {id})
                   ELSE products
    /\ nreq' = nreq + 1
    /\ UNCHANGED <<carts, cart_items, next_cart_item_id, orders, order_items>>
    /\ UNCHANGED <<req, concurrent, clients, accounts, catalog, hist>>

\* ------------------------------------------------------------- PUT /api/admin/orders/:id/status
Admins == {1}        \* users.user_id of the seeded user with is_admin = 1

\* const validStatuses = ['Placed', 'Preparing', 'Ready', 'Delivered', 'Cancelled']
validStatuses == {"Placed", "Preparing", "Ready", "Delivered", "Cancelled"}

\* A body without order_status.
NoStatus == "undefined"

\* What a request body carries as order_status: a recognized value, the same word
\* in other letters, another word, or nothing.
BodyStatuses == validStatuses \cup {"placed", "Shipped", NoStatus}

\* A status check that takes any string the body carries.
anyStatusIsValid(order_status) == order_status # NoStatus

\* validStatuses.includes(order_status)
isValidStatus(order_status) == order_status \in validStatuses

\* An update that matches every row when it finds none for the id.
ordersWithIdOrAll(orderId) ==
    IF orderId \in 1..Len(orders) THEN {orderId} ELSE 1..Len(orders)

\* The rows WHERE order_id = ? matches.
ordersWithId(orderId) == {o \in 1..Len(orders) : o = orderId}

\* An UPDATE that also sets order_date, as a column declared ON UPDATE
\* CURRENT_TIMESTAMP would.
updateStatusAndDate(row, order_status) ==
    [row EXCEPT !.order_status = order_status, !.order_date = nreq + 1]

\* The documented status graph: Delivered and Cancelled are terminal.
statusGraph ==
    {<<"Placed", "Preparing">>, <<"Placed", "Ready">>, <<"Placed", "Cancelled">>,
     <<"Preparing", "Ready">>, <<"Preparing", "Cancelled">>,
     <<"Ready", "Delivered">>, <<"Ready", "Cancelled">>}

\* An UPDATE that leaves the row alone unless the graph has the transition.
updateStatusAlongGraph(row, order_status) ==
    IF <<row.order_status, order_status>> \in statusGraph
    THEN [row EXCEPT !.order_status = order_status]
    ELSE row

\* UPDATE orders SET order_status = ? WHERE order_id = ?
updateStatus(row, order_status) == [row EXCEPT !.order_status = order_status]

\* Update order status: the synchronous validation (400), the one UPDATE, and
\* 404 when result.affectedRows === 0.  The connection is opened with mysql2's
\* default flags, FOUND_ROWS among them: affectedRows counts the rows the WHERE
\* clause matched, also those whose status was already the new one.  The record
\* of a request answered 200 keeps the order id it named.
SetStatus(h, u, orderId, order_status) ==
    /\ CanStart(h)
    /\ LET r == [Idle EXCEPT !.kind = "setStatus", !.user_id = u]
           valid == isValidStatus(order_status)
           rows == IF valid THEN ordersWithId(orderId) ELSE {}
       IN  /\ orders' = [o \in 1..Len(orders) |->
                            IF o \in rows THEN updateStatus(orders[o], order_status) ELSE orders[o]]
           /\ req' = [req EXCEPT ![h] =
                    IF ~valid THEN Reply(r, 400, "Invalid order status")
                    ELSE IF rows = {} THEN Reply(r, 404, "Order not found")
                    ELSE Finish(r, [NoRes EXCEPT !.status = 200, !.id = orderId])]
    /\ nreq' = nreq + 1
    /\ UNCHANGED <<products, carts, cart_items, next_cart_item_id, order_items>>
    /\ UNCHANGED <<concurrent, clients, accounts, catalog, hist>>

\* ------------------------------------------------------------- accounts and tokens
SeededAdmins == {3}      \* the user_id of an admin account seedAdmins.js adds
Accounts == Users \cup SeededAdmins
NoSuchUser == Cardinality(Accounts) + 1    \* a user_id with no row in users

\* bcrypt.hash(password, 12) and bcrypt.compare(password, hash)
bcryptHash(password) == <<"$2b$12$", password>>
bcryptCompare(password, hash) == hash = bcryptHash(password)

SeedPassword == "Nishanth@123"
AdminPassword == "Megharaj@123"
NewPassword == "Changed@123"
BodyPasswords == {SeedPassword, AdminPassword, NewPassword}

\* jwt.sign({ user_id, is_admin, email }, JWT_SECRET, { expiresIn: '7d' }): the
\* claims are those of the users row at the time of signing.  The email is the
\* user's, one to one with the user_id.
jwtSign(user_id, row) == [user_id |-> user_id, is_admin |-> row.is_admin]

NoClaims == [user_id |-> 0, is_admin |-> 0]

\* The Authorization header of a request: absent, 'Bearer' with nothing after it,
\* a token jwt.verify rejects (bad signature or expired), or a token the server
\* signed and that has not expired.
NoHeader == [t |-> "none", claims |-> NoClaims]
BearerNothing == [t |-> "bearer", claims |-> NoClaims]
BearerForged == [t |-> "forged", claims |-> [user_id |-> 1, is_admin |-> 1]]
Bearer(claims) == [t |-> "jwt", claims |-> claims]
Headers == {NoHeader, BearerNothing, BearerForged} \cup {Bearer(c) : c \in tokens}

\* What a middleware hands on: status 0 stands for next().
Pass(user) == [status |-> 0, error |-> "", user |-> user]
Deny(s, e) == [status |-> s, error |-> e, user |-> NoClaims]

\* authenticateToken: 401 without header, 401 without token part, 403 when
\* jwt.verify fails, else req.user = the token's claims.
authenticateToken(authHeader) ==
    IF authHeader.t = "none" THEN Deny(401, "Access token required")
    ELSE IF authHeader.t = "bearer" THEN Deny(401, "Malformed authorization header")
    ELSE IF authHeader.t # "jwt" THEN Deny(403, "Invalid or expired token")
    ELSE Pass(authHeader.claims)

\* requireAdmin: if (!req.user || !req.user.is_admin)
requireAdmin(gate) ==
    IF gate.user.is_admin = 0 THEN Deny(403, "Admin privileges required") ELSE gate

\* The middleware chain authenticateToken, requireAdmin of the admin routes.
adminGate(authHeader) ==
    LET gate == authenticateToken(authHeader)
    IN  IF gate.status # 0 THEN gate ELSE requireAdmin(gate)

\* A middleware has replied and the route handler never runs.  The record keeps
\* what kind of Authorization header the request carried.
Rejected(h, kind, authHeader, gate) ==
    /\ CanStart(h)
    /\ req' = [req EXCEPT ![h] =
            [Reply([Idle EXCEPT !.kind = kind], gate.status, gate.error)
                EXCEPT !.auth = authHeader.t]]
    /\ nreq' = nreq + 1
    /\ DbUnchanged
    /\ UNCHANGED <<concurrent, clients, hist, accounts, catalog>>

\* ------------------------------------------------------------- POST /api/auth/login
\* The users row of the email, bcrypt.compare, and a signed token in the reply.
\* email is the user_id of the account the email belongs to.
Login(h, email, password) ==
    /\ CanStart(h)
    /\ LET r == [Idle EXCEPT !.kind = "login", !.email = email]
           found == email \in DOMAIN users
           match == found /\ bcryptCompare(password, users[email].password_hash)
       IN  /\ req' = [req EXCEPT ![h] =
                    IF ~match THEN Reply(r, 401, "Invalid email or password")
                    ELSE Finish([r EXCEPT !.user_id = email], [NoRes EXCEPT !.status = 200])]
           /\ tokens' = IF match THEN tokens \cup {jwtSign(email, users[email])} ELSE tokens
    /\ nreq' = nreq + 1
    /\ DbUnchanged
    /\ UNCHANGED <<concurrent, clients, hist, users, password_resets, reset_log, catalog>>

\* ------------------------------------------------------------- token-protected routes
\* GET /api/cart behind authenticateToken: the cart of req.user.user_id.
GetCart(h, authHeader) ==
    LET gate == authenticateToken(authHeader)
    IN  IF gate.status = 0
        THEN StartView(h, gate.user.user_id)
        ELSE Rejected(h, "view", authHeader, gate)

\* PUT /api/admin/orders/:id/status behind authenticateToken, requireAdmin.
AdminSetStatus(h, authHeader, orderId, order_status) ==
    LET gate == adminGate(authHeader)
    IN  IF gate.status = 0
        THEN SetStatus(h, gate.user.user_id, orderId, order_status)
        ELSE Rejected(h, "setStatus", authHeader, gate)

\* GET /api/admin/orders behind authenticateToken, requireAdmin: two SELECTs and
\* the array of all orders in the reply.
AdminListOrders(h, authHeader) ==
    LET gate == adminGate(authHeader)
    IN  IF gate.status = 0
        THEN /\ CanStart(h)
             /\ req' = [req EXCEPT ![h] =
                    Finish([Idle EXCEPT !.kind = "listOrders", !.user_id = gate.user.user_id],
                           [NoRes EXCEPT !.status = 200])]
             /\ nreq' = nreq + 1
             /\ DbUnchanged
             /\ UNCHANGED <<concurrent, clients, hist, accounts, catalog>>
        ELSE Rejected(h, "listOrders", authHeader, gate)

\* ------------------------------------------------------------- PUT /api/admin/users/:id/admin
\* What a body carries as is_admin: true, false, or something that is no boolean.
BodyFlags == {"true", "false", "undefined"}

\* 400 unless is_admin is a boolean, 400 when the caller named in the token
\* removes their own privileges, else UPDATE users SET is_admin = ? WHERE
\* user_id = ? and 404 when no row matched.
AdminSetUserAdmin(h, authHeader, userId, is_admin) ==
    LET gate == adminGate(authHeader)
        r == [Idle EXCEPT !.kind = "setUserAdmin", !.user_id = gate.user.user_id]
        bad == is_admin \notin {"true", "false"}
        self == gate.user.user_id = userId /\ is_admin = "false"
        found == userId \in DOMAIN users
    IN  IF gate.status = 0
        THEN /\ CanStart(h)
             /\ users' = IF ~bad /\ ~self /\ found
                         THEN [users EXCEPT ![userId].is_admin = IF is_admin = "true" THEN 1 ELSE 0]
                         ELSE users
             /\ req' = [req EXCEPT ![h] =
                    IF bad THEN Reply(r, 400, "is_admin must be a boolean value")
                    ELSE IF self THEN Reply(r, 400, "Cannot remove your own admin privileges")
                    ELSE IF ~found THEN Reply(r, 404, "User not found")
                    ELSE Finish(r, [NoRes EXCEPT !.status = 200, !.id = userId])]
             /\ nreq' = nreq + 1
             /\ DbUnchanged
             /\ UNCHANGED <<concurrent, clients, hist, tokens, password_resets, reset_log, catalog>>
        ELSE Rejected(h, "setUserAdmin", authHeader, gate)

\* ------------------------------------------------------------- POST /api/auth/forgot-password
\* An email address is told by the user_id of the account it belongs to;
\* NoSuchUser is a well-formed address of nobody and 0 a missing or malformed one.
BodyEmails == Accounts \cup {NoSuchUser, 0}

\* res.json({ success: true, message: 'If the email address is registered, ...' })
forgotDone == [NoRes EXCEPT !.status = 200]

\* The record of a forgot-password request keeps the email it named.
ForgotReply(r, res) == [Finish(r, res) EXCEPT !.email = r.email]

\* Input validation: 400 without email or when validateEmail fails.
StartForgot(h, email) ==
    /\ CanStart(h)
    /\ LET r == [Idle EXCEPT !.kind = "forgot", !.email = email]
       IN  req' = [req EXCEPT ![h] =
                IF email = 0 THEN Reply(r, 400, "Invalid email format")
                ELSE [r EXCEPT !.pc = "forgotUser"]]
    /\ nreq' = nreq + 1
    /\ DbUnchanged
    /\ UNCHANGED <<concurrent, clients, hist, accounts, catalog>>

\* Check if user exists: SELECT ... FROM users WHERE email = ?; the success
\* message at once when there is none.
ForgotUser(h) ==
    /\ req[h].pc = "forgotUser"
    /\ req' = [req EXCEPT ![h] =
            IF req[h].email \in DOMAIN users
            THEN [@ EXCEPT !.pc = "forgotStore"]
            ELSE ForgotReply(@, forgotDone)]
    /\ DbUnchanged
    /\ UNCHANGED <<nreq, concurrent, clients, hist, accounts, catalog>>

\* generateResetToken(): a token never generated before.
generateResetToken == Cardinality(DOMAIN reset_log) + 1

\* INSERT INTO password_resets (email, token, expires_at); when the storage
\* rejects it, the outer catch replies 500.
ForgotStore(h, stored) ==
    /\ req[h].pc = "forgotStore"
    /\ LET resetToken == generateResetToken
       IN  IF stored
           THEN /\ password_resets' = password_resets @@
                        (resetToken :> [email |-> req[h].email, used |-> 0, expired |-> FALSE])
                /\ reset_log' = reset_log @@ (resetToken :> 0)
                /\ req' = [req EXCEPT ![h] = [@ EXCEPT !.token = resetToken, !.pc = "forgotSend"]]
           ELSE /\ UNCHANGED <<password_resets, reset_log>>
                /\ req' = [req EXCEPT ![h] =
                        ForgotReply(@, [NoRes EXCEPT !.status = 500, !.error = "Internal server error"])]
    /\ DbUnchanged
    /\ UNCHANGED <<nreq, concurrent, clients, hist, users, tokens, catalog>>

\* sendEmail(emailOptions): the success message, or 500 when the mail is not sent.
ForgotSend(h, sent) ==
    /\ req[h].pc = "forgotSend"
    /\ req' = [req EXCEPT ![h] =
            IF sent THEN ForgotReply(@, forgotDone)
            ELSE ForgotReply(@, [NoRes EXCEPT !.status = 500,
                                              !.error = "Failed to send reset email. Please check your email configuration."])]
    /\ DbUnchanged
    /\ UNCHANGED <<nreq, concurrent, clients, hist, accounts, catalog>>

\* expires_at (30 minutes after the insert) is reached.
ResetExpires(token) ==
    /\ token \in DOMAIN password_resets
    /\ ~password_resets[token].expired
    /\ password_resets' = [password_resets EXCEPT ![token].expired = TRUE]
    /\ DbUnchanged
    /\ UNCHANGED <<req, nreq, concurrent, clients, hist, users, tokens, reset_log, catalog>>

\* ------------------------------------------------------------- POST /api/auth/reset-password
WeakPassword == "abc"
NewPasswords == {NewPassword, AdminPassword, WeakPassword}

\* passwordRegex: at least 6 characters, a letter and a digit.
validatePassword(password) == password # WeakPassword

\* Input validation; token 0 stands for a body without token.  The record of a
\* reset-password request keeps the token it named.
StartReset(h, token, newPassword) ==
    /\ CanStart(h)
    /\ LET r == [Idle EXCEPT !.kind = "reset", !.token = token, !.password = newPassword]
       IN  req' = [req EXCEPT ![h] =
                IF token = 0 THEN Reply(r, 400, "Token and new password are required")
                ELSE IF ~validatePassword(newPassword) THEN Reply(r, 400, "Password too weak")
                ELSE [r EXCEPT !.pc = "resetSelect"]]
    /\ nreq' = nreq + 1
    /\ DbUnchanged
    /\ UNCHANGED <<concurrent, clients, hist, accounts, catalog>>

\* SELECT * FROM password_resets WHERE token = ? AND expires_at > NOW() AND used = 0
validResets(token) ==
    {t \in DOMAIN password_resets :
        t = token /\ ~password_resets[t].expired /\ password_resets[t].used = 0}

\* Verify token is valid and not expired: 400 on no row, else resetRecord.
ResetSelect(h) ==
    /\ req[h].pc = "resetSelect"
    /\ req' = [req EXCEPT ![h] =
            IF validResets(req[h].token) = {}
            THEN [Reply(@, 400, "Invalid or expired reset token") EXCEPT !.token = req[h].token]
            ELSE [@ EXCEPT !.email = password_resets[req[h].token].email, !.pc = "resetUser"]]
    /\ DbUnchanged
    /\ UNCHANGED <<nreq, concurrent, clients, hist, accounts, catalog>>

\* bcrypt.hash, then UPDATE users SET password_hash = ? WHERE email = ?; 404
\* when no row matched.
ResetUser(h) ==
    /\ req[h].pc = "resetUser"
    /\ IF req[h].email \in DOMAIN users
       THEN /\ users' = [users EXCEPT ![req[h].email].password_hash = bcryptHash(req[h].password)]
            /\ reset_log' = [reset_log EXCEPT ![req[h].token] = @ + 1]
            /\ req' = [req EXCEPT ![h] = [@ EXCEPT !.pc = "resetUsed"]]
       ELSE /\ UNCHANGED <<users, reset_log>>
            /\ req' = [req EXCEPT ![h] = Reply(@, 404, "User not found")]
    /\ DbUnchanged
    /\ UNCHANGED <<nreq, concurrent, clients, hist, tokens, password_resets, catalog>>

\* Mark reset token as used: UPDATE password_resets SET used = 1 WHERE token = ?
ResetUsed(h) ==
    /\ req[h].pc = "resetUsed"
    /\ password_resets' = [t \in DOMAIN password_resets |->
                                IF t = req[h].token THEN [password_resets[t] EXCEPT !.used = 1]
                                ELSE password_resets[t]]
    /\ req' = [req EXCEPT ![h] = [@ EXCEPT !.pc = "resetClean"]]
    /\ DbUnchanged
    /\ UNCHANGED <<nreq, concurrent, clients, hist, users, tokens, reset_log, catalog>>

\* DELETE FROM password_resets WHERE expires_at < NOW() OR (email = ? AND used = 1),
\* and the reply 'Password reset successfully'.
ResetClean(h) ==
    /\ req[h].pc = "resetClean"
    /\ password_resets' = Restrict(password_resets,
            {t \in DOMAIN password_resets :
                ~(\/ password_resets[t].expired
                  \/ password_resets[t].email = req[h].email /\ password_resets[t].used = 1)})
    /\ req' = [req EXCEPT ![h] =
            [Finish(@, [NoRes EXCEPT !.status = 200]) EXCEPT !.token = req[h].token]]
    /\ DbUnchanged
    /\ UNCHANGED <<nreq, concurrent, clients, hist, users, tokens, reset_log, catalog>>

\* ------------------------------------------------------------- categories
\* What a body carries as category or category_name: a seeded name in use, a
\* seeded name no product uses, a new name, or nothing.
BodyCategories == {"Burger", "Snacks", "Juice", ""}

\* POST /api/categories: 400 without a name.
StartAddCategory(h, category_name) ==
    /\ CanStart(h)
    /\ LET r == [Idle EXCEPT !.kind = "addCategory", !.category = category_name]
       IN  req' = [req EXCEPT ![h] =
                IF category_name = "" THEN Reply(r, 400, "Category name is required")
                ELSE [r EXCEPT !.pc = "categoryExisting"]]
    /\ nreq' = nreq + 1
    /\ DbUnchanged
    /\ UNCHANGED <<concurrent, clients, hist, accounts, catalog>>

\* Check if category already exists: SELECT category_id FROM categories WHERE
\* category_name = ? (active or not).
AddCategoryExisting(h) ==
    /\ req[h].pc = "categoryExisting"
    /\ req' = [req EXCEPT ![h] =
            IF req[h].category \in DOMAIN categories
            THEN Reply(@, 400, "Category already exists")
            ELSE [@ EXCEPT !.pc = "categoryInsert"]]
    /\ DbUnchanged
    /\ UNCHANGED <<nreq, concurrent, clients, hist, accounts, catalog>>

\* INSERT INTO categories (category_name): is_active defaults to 1; the UNIQUE
\* key on category_name rejects a name that is there by now (500).
AddCategoryInsert(h) ==
    /\ req[h].pc = "categoryInsert"
    /\ IF req[h].category \in DOMAIN categories
       THEN /\ categories' = categories
            /\ req' = [req EXCEPT ![h] = Reply(@, 500, "Failed to add category")]
       ELSE /\ categories' = categories @@ (req[h].category :> [is_active |-> 1])
            /\ req' = [req EXCEPT ![h] = Finish(@, [NoRes EXCEPT !.status = 201])]
    /\ DbUnchanged
    /\ UNCHANGED <<nreq, concurrent, clients, hist, accounts, product_category>>

\* DELETE /api/categories/:id.  A category is named by its category_name, which
\* is UNIQUE like its category_id; a name with no row stands for an unknown id.
StartDeleteCategory(h, category) ==
    /\ CanStart(h)
    /\ req' = [req EXCEPT ![h] =
            [Idle EXCEPT !.kind = "deleteCategory", !.category = category, !.pc = "categoryCount"]]
    /\ nreq' = nreq + 1
    /\ DbUnchanged
    /\ UNCHANGED <<concurrent, clients, hist, accounts, catalog>>

\* SELECT COUNT(*) FROM products WHERE category = (SELECT category_name FROM
\* categories WHERE category_id = ?)
productsOfCategory(category) ==
    {i \in DOMAIN product_category : category \in DOMAIN categories /\ product_category[i] = category}

\* Check if category is being used by products: 400 when the count is not 0.
DeleteCategoryCount(h) ==
    /\ req[h].pc = "categoryCount"
    /\ req' = [req EXCEPT ![h] =
            IF productsOfCategory(req[h].category) # {}
            THEN [Reply(@, 400, "Cannot delete category. It is being used by products.")
                    EXCEPT !.category = req[h].category]
            ELSE [@ EXCEPT !.pc = "categoryDeactivate"]]
    /\ DbUnchanged
    /\ UNCHANGED <<nreq, concurrent, clients, hist, accounts, catalog>>

\* UPDATE categories SET is_active = 0 WHERE category_id = ?; 404 on no row.
DeleteCategoryDeactivate(h) ==
    /\ req[h].pc = "categoryDeactivate"
    /\ IF req[h].category \in DOMAIN categories
       THEN /\ categories' = [categories EXCEPT ![req[h].category].is_active = 0]
            /\ req' = [req EXCEPT ![h] =
                    [Finish(@, [NoRes EXCEPT !.status = 200]) EXCEPT !.category = req[h].category]]
       ELSE /\ categories' = categories
            /\ req' = [req EXCEPT ![h] = Reply(@, 404, "Category not found")]
    /\ DbUnchanged
    /\ UNCHANGED <<nreq, concurrent, clients, hist, accounts, product_category>>

\* ------------------------------------------------------------- POST /api/admin/products
\* Input validation (400 without category or price, 400 unless the price is
\* positive) and INSERT INTO products (..., category, price, ..., available);
\* item_id = result.insertId, the next id as long as no product was deleted.
AdminAddProduct(category, price) ==
    /\ nreq < MaxReq
    /\ concurrent \/ \A k \in Slots : Quiet(k)
    /\ LET item_id == Cardinality(DOMAIN products) + 1
           valid == category # "" /\ price > 0
       IN  /\ products' = IF valid THEN products @@ (item_id :> [price |-> price, available |-> 1])
                          ELSE products
           /\ product_category' = IF valid THEN product_category @@ (item_id :> category)
                                  ELSE product_category
    /\ nreq' = nreq + 1
    /\ UNCHANGED <<carts, cart_items, next_cart_item_id, orders, order_items>>
    /\ UNCHANGED <<req, concurrent, clients, hist, accounts, categories>>

\* PUT /api/admin/products/:id with the category of the body: the validation
\* and one UPDATE products SET ..., category = ?, price = ?, available = ?
\* WHERE item_id = ?.
AdminPutProduct(id, category, price, available) ==
    /\ nreq < MaxReq
    /\ concurrent \/ \A k \in Slots : Quiet(k)
    /\ LET valid == category # "" /\ price > 0 /\ id \in DOMAIN products
       IN  /\ products' = IF valid
                          THEN [products EXCEPT ![id] = [price |-> price, available |-> available]]
                          ELSE products
           /\ product_category' = IF valid THEN [product_category EXCEPT ![id] = category]
                                  ELSE product_category
    /\ nreq' = nreq + 1
    /\ UNCHANGED <<carts, cart_items, next_cart_item_id, orders, order_items>>
    /\ UNCHANGED <<req, concurrent, clients, hist, accounts, categories>>

\* ------------------------------------------------------------- initial tables
\* The users db_schema.sql and seedAdmins.js insert, each logged in once; no
\* reset token.
SeedAccounts ==
    /\ users = [u \in Accounts |->
                    [is_admin |-> IF u \in Admins \cup SeededAdmins THEN 1 ELSE 0,
                     password_hash |-> bcryptHash(IF u \in SeededAdmins THEN AdminPassword
                                                                       ELSE SeedPassword)]]
    /\ tokens = {jwtSign(u, [is_admin |-> IF u \in Admins \cup SeededAdmins THEN 1 ELSE 0]) :
                    u \in Accounts}
    /\ password_resets = <<>>
    /\ reset_log = <<>>

\* Three of the default categories of db_schema.sql and the categories of the
\* two seeded products.
SeedCatalog ==
    /\ categories = [c \in {"Snacks", "Burger", "Sandwich"} |-> [is_active |-> 1]]
    /\ product_category = [i \in Products |-> IF i = 1 THEN "Burger" ELSE "Sandwich"]

\* The store as db_schema.sql creates it, with two products (45.00 and 80.00),
\* no cart and no order; requests arrive concurrently from user 1.
Init ==
    /\ products = [i \in Products |-> [price |-> IF i = 1 THEN 4500 ELSE 8000, available |-> 1]]
    /\ carts = <<>>
    /\ cart_items = <<>>
    /\ next_cart_item_id = 1
    /\ orders = <<>>
    /\ order_items = <<>>
    /\ req = [h \in Slots |-> Idle]
    /\ nreq = 0
    /\ concurrent = TRUE
    /\ clients = {1}
    /\ hist = <<>>
    /\ SeedAccounts
    /\ SeedCatalog

Next ==
    \/ \E h \in Slots : GetOrCreateCartSelect(h)
    \/ \E h \in Slots : GetOrCreateCartInsert(h)
    \/ \E h \in Slots, u \in clients : StartView(h, u)
    \/ \E h \in Slots : ViewItems(h)
    \/ \E h \in Slots, u \in clients, item \in Products \cup {0, NoSuchItem}, q \in BodyQuantities :
            StartAdd(h, u, item, q)
    \/ \E h \in Slots : AddProduct(h)
    \/ \E h \in Slots : AddExisting(h)
    \/ \E h \in Slots : AddUpdate(h)
    \/ \E h \in Slots : AddInsert(h)
    \/ \E h \in Slots, u \in clients, id \in 1..next_cart_item_id, q \in BodyQuantities :
            StartSetQuantity(h, u, id, q)
    \/ \E h \in Slots : SetVerify(h)
    \/ \E h \in Slots : SetDelete(h)
    \/ \E h \in Slots : SetUpdate(h)
    \/ \E h \in Slots, u \in clients : StartCheckout(h, u)
    \/ \E h \in Slots : CheckoutCart(h)
    \/ \E h \in Slots : CheckoutItems(h)
    \/ \E h \in Slots : CheckoutOrder(h)
    \/ \E h \in Slots : \E i \in req[h].pending : CheckoutLine(h, i)
    \/ \E h \in Slots : CheckoutClear(h)
    \/ \E h \in Slots : CheckoutWriteFails(h)
    \/ \E h \in Slots : \E i \in req[h].pending : CheckoutLineFails(h, i)
    \/ \E id \in Products \cup {NoSuchItem}, price \in Prices \cup {0}, available \in {0, 1} :
            AdminUpdateProduct(id, price, available)

Spec == Init /\ [][Next]_vars

\* One request at a time.
SeqInit ==
    /\ products = [i \in Products |-> [price |-> IF i = 1 THEN 4500 ELSE 8000, available |-> 1]]
    /\ carts = <<>>
    /\ cart_items = <<>>
    /\ next_cart_item_id = 1
    /\ orders = <<>>
    /\ order_items = <<>>
    /\ req = [h \in Slots |-> Idle]
    /\ nreq = 0
    /\ concurrent = FALSE
    /\ clients = {1}
    /\ hist = <<>>
    /\ SeedAccounts
    /\ SeedCatalog

SeqSpec == SeqInit /\ [][Next]_vars

\* The first rows of the sample orders db_schema.sql inserts (they have no order
\* lines); their order_date is before the server started.
SampleOrders ==
    << [user_id |-> 2, total_amount |-> 12550, order_status |-> "Delivered", order_date |-> 0],
       [user_id |-> 2, total_amount |-> 8975, order_status |-> "Delivered", order_date |-> 0],
       [user_id |-> 1, total_amount |-> 6725, order_status |-> "Preparing", order_date |-> 0] >>

\* The store with its sample orders; one request at a time, from user 1.
StatusInit ==
    /\ products = [i \in Products |-> [price |-> IF i = 1 THEN 4500 ELSE 8000, available |-> 1]]
    /\ carts = <<>>
    /\ cart_items = <<>>
    /\ next_cart_item_id = 1
    /\ orders = SampleOrders
    /\ order_items = <<>>
    /\ req = [h \in Slots |-> Idle]
    /\ nreq = 0
    /\ concurrent = FALSE
    /\ clients = {1}
    /\ hist = <<>>
    /\ SeedAccounts
    /\ SeedCatalog

\* The store with the first of its sample orders; one request at a time, from
\* user 1.
OrderInit ==
    /\ products = [i \in Products |-> [price |-> IF i = 1 THEN 4500 ELSE 8000, available |-> 1]]
    /\ carts = <<>>
    /\ cart_items = <<>>
    /\ next_cart_item_id = 1
    /\ orders = SubSeq(SampleOrders, 1, 1)
    /\ order_items = <<>>
    /\ req = [h \in Slots |-> Idle]
    /\ nreq = 0
    /\ concurrent = FALSE
    /\ clients = {1}
    /\ hist = <<>>
    /\ SeedAccounts
    /\ SeedCatalog

\* Every route of the cart, the orders and the catalog.
OrderNext ==
    \/ Next
    \/ \E h \in Slots, u \in clients, id \in 1..next_cart_item_id : StartRemove(h, u, id)
    \/ \E h \in Slots : RemoveDelete(h)
    \/ \E h \in Slots, u \in clients : StartClear(h, u)
    \/ \E h \in Slots : ClearDelete(h)
    \/ \E id \in Products \cup {NoSuchItem} : AdminDeleteProduct(id)
    \/ \E h \in Slots, u \in Admins, orderId \in 1..(Len(orders) + 1), order_status \in BodyStatuses :
            SetStatus(h, u, orderId, order_status)

OrderSpec == OrderInit /\ [][OrderNext]_vars

\* The order status route over the sample orders and the orders that checkouts
\* of one-line carts create.
StatusNext ==
    \/ \E h \in Slots : GetOrCreateCartSelect(h)
    \/ \E h \in Slots : GetOrCreateCartInsert(h)
    \/ \E h \in Slots, u \in clients, item \in Products : StartAdd(h, u, item, JsInt(1))
    \/ \E h \in Slots : AddProduct(h)
    \/ \E h \in Slots : AddExisting(h)
    \/ \E h \in Slots : AddInsert(h)
    \/ \E h \in Slots, u \in clients : StartCheckout(h, u)
    \/ \E h \in Slots : CheckoutCart(h)
    \/ \E h \in Slots : CheckoutItems(h)
    \/ \E h \in Slots : CheckoutOrder(h)
    \/ \E h \in Slots : \E i \in req[h].pending : CheckoutLine(h, i)
    \/ \E h \in Slots : CheckoutClear(h)
    \/ \E h \in Slots, u \in Admins, orderId \in 1..(Len(orders) + 1), order_status \in BodyStatuses :
            SetStatus(h, u, orderId, order_status)

StatusSpec == StatusInit /\ [][StatusNext]_vars

\* The cart routes alone, called by both users, one request at a time.
CartInit ==
    /\ products = [i \in Products |-> [price |-> IF i = 1 THEN 4500 ELSE 8000, available |-> 1]]
    /\ carts = <<>>
    /\ cart_items = <<>>
    /\ next_cart_item_id = 1
    /\ orders = <<>>
    /\ order_items = <<>>
    /\ req = [h \in Slots |-> Idle]
    /\ nreq = 0
    /\ concurrent = FALSE
    /\ clients = Users
    /\ hist = <<>>
    /\ SeedAccounts
    /\ SeedCatalog

CartNext ==
    \/ \E h \in Slots : GetOrCreateCartSelect(h)
    \/ \E h \in Slots : GetOrCreateCartInsert(h)
    \/ \E h \in Slots, u \in clients, item \in Products, q \in {JsInt(n) : n \in 1..MaxQty} :
            StartAdd(h, u, item, q)
    \/ \E h \in Slots : AddProduct(h)
    \/ \E h \in Slots : AddExisting(h)
    \/ \E h \in Slots : AddUpdate(h)
    \/ \E h \in Slots : AddInsert(h)
    \/ \E h \in Slots, u \in clients, id \in 1..next_cart_item_id, q \in BodyQuantities :
            StartSetQuantity(h, u, id, q)
    \/ \E h \in Slots : SetVerify(h)
    \/ \E h \in Slots : SetDelete(h)
    \/ \E h \in Slots : SetUpdate(h)
    \/ \E h \in Slots, u \in clients, id \in 1..next_cart_item_id : StartRemove(h, u, id)
    \/ \E h \in Slots : RemoveDelete(h)

CartSpec == CartInit /\ [][CartNext]_vars

\* The store with the first of its sample orders and every seeded user logged
\* in; one request at a time.
AuthInit ==
    /\ products = [i \in Products |-> [price |-> IF i = 1 THEN 4500 ELSE 8000, available |-> 1]]
    /\ carts = <<>>
    /\ cart_items = <<>>
    /\ next_cart_item_id = 1
    /\ orders = SubSeq(SampleOrders, 1, 1)
    /\ order_items = <<>>
    /\ req = [h \in Slots |-> Idle]
    /\ nreq = 0
    /\ concurrent = FALSE
    /\ clients = Accounts
    /\ hist = <<>>
    /\ SeedAccounts
    /\ SeedCatalog

\* Login and routes behind the token checks, called with any Authorization header.
AuthNext ==
    \/ \E h \in Slots, email \in Accounts \cup {NoSuchUser}, password \in BodyPasswords :
            Login(h, email, password)
    \/ \E h \in Slots, authHeader \in Headers : GetCart(h, authHeader)
    \/ \E h \in Slots : GetOrCreateCartSelect(h)
    \/ \E h \in Slots : GetOrCreateCartInsert(h)
    \/ \E h \in Slots : ViewItems(h)
    \/ \E h \in Slots, authHeader \in Headers, orderId \in 1..(Len(orders) + 1),
          order_status \in BodyStatuses :
            AdminSetStatus(h, authHeader, orderId, order_status)
    \/ \E h \in Slots, authHeader \in Headers : AdminListOrders(h, authHeader)
    \/ \E h \in Slots, authHeader \in Headers, userId \in Accounts \cup {NoSuchUser},
          is_admin \in BodyFlags :
            AdminSetUserAdmin(h, authHeader, userId, is_admin)

AuthSpec == AuthInit /\ [][AuthNext]_vars

\* The store as db_schema.sql creates it; the password reset routes, called
\* concurrently.
ResetInit ==
    /\ products = [i \in Products |-> [price |-> IF i = 1 THEN 4500 ELSE 8000, available |-> 1]]
    /\ carts = <<>>
    /\ cart_items = <<>>
    /\ next_cart_item_id = 1
    /\ orders = <<>>
    /\ order_items = <<>>
    /\ req = [h \in Slots |-> Idle]
    /\ nreq = 0
    /\ concurrent = TRUE
    /\ clients = Accounts
    /\ hist = <<>>
    /\ SeedAccounts
    /\ SeedCatalog

ResetNext ==
    \/ \E h \in Slots, email \in BodyEmails : StartForgot(h, email)
    \/ \E h \in Slots : ForgotUser(h)
    \/ \E h \in Slots, stored \in BOOLEAN : ForgotStore(h, stored)
    \/ \E h \in Slots, sent \in BOOLEAN : ForgotSend(h, sent)
    \/ \E token \in DOMAIN password_resets : ResetExpires(token)
    \/ \E h \in Slots, token \in DOMAIN reset_log \cup {0}, newPassword \in NewPasswords :
            StartReset(h, token, newPassword)
    \/ \E h \in Slots : ResetSelect(h)
    \/ \E h \in Slots : ResetUser(h)
    \/ \E h \in Slots : ResetUsed(h)
    \/ \E h \in Slots : ResetClean(h)

ResetSpec == ResetInit /\ [][ResetNext]_vars

\* The store as db_schema.sql creates it; the category routes and the product
\* routes of the admin, called concurrently.
CatalogInit ==
    /\ products = [i \in Products |-> [price |-> IF i = 1 THEN 4500 ELSE 8000, available |-> 1]]
    /\ carts = <<>>
    /\ cart_items = <<>>
    /\ next_cart_item_id = 1
    /\ orders = <<>>
    /\ order_items = <<>>
    /\ req = [h \in Slots |-> Idle]
    /\ nreq = 0
    /\ concurrent = TRUE
    /\ clients = Admins
    /\ hist = <<>>
    /\ SeedAccounts
    /\ SeedCatalog

CatalogNext ==
    \/ \E h \in Slots, category_name \in BodyCategories : StartAddCategory(h, category_name)
    \/ \E h \in Slots : AddCategoryExisting(h)
    \/ \E h \in Slots : AddCategoryInsert(h)
    \/ \E h \in Slots, category \in BodyCategories \ {""} : StartDeleteCategory(h, category)
    \/ \E h \in Slots : DeleteCategoryCount(h)
    \/ \E h \in Slots : DeleteCategoryDeactivate(h)
    \/ \E category \in BodyCategories, price \in Prices \cup {0} : AdminAddProduct(category, price)
    \/ \E id \in Products \cup {NoSuchItem}, category \in BodyCategories, price \in Prices \cup {0},
          available \in {0, 1} :
            AdminPutProduct(id, category, price, available)

CatalogSpec == CatalogInit /\ [][CatalogNext]_vars

\* ------------------------------------------------------------- properties
AllQuiet == \A k \in Slots : Quiet(k)

\* The order_items rows of an order, in a given order_items table.
linesOfOrder(table, order_id) == {k \in 1..Len(table) : table[k].order_id = order_id}

\* C1: checkout is all-or-nothing.  In the step that ends a checkout of a
\* non-empty cart, either the order exists with one order line per cart line read
\* and the cart has no lines, or the attempt left no order and no order line and
\* the cart lines are as they were read.
CheckoutAllOrNothing ==
    [][\A h \in Slots :
        (req[h].kind = "checkout" /\ ~Quiet(h) /\ req'[h].pc = "done" /\ DOMAIN req[h].items # {})
        => LET r == req[h]
               cartNow == {i \in DOMAIN cart_items' : cart_items'[i].cart_id = r.cart_id}
           IN  \/ /\ r.order_id \in 1..Len(orders')
                  /\ Cardinality(linesOfOrder(order_items', r.order_id)) = Cardinality(DOMAIN r.items)
                  /\ \A i \in DOMAIN r.items :
                        \E k \in linesOfOrder(order_items', r.order_id) :
                            order_items'[k] = newOrderItem(r.order_id, r.items[i])
                  /\ cartNow = {}
               \/ /\ r.order_id = 0
                  /\ orders' = orders
                  /\ order_items' = order_items
                  /\ cartNow = DOMAIN r.items
                  /\ \A i \in cartNow :
                        /\ cart_items'[i].quantity = r.items[i].quantity
                        /\ cart_items'[i].unit_price = r.items[i].unit_price]_vars

\* C2: two checkouts of one user never both create an order from the same cart
\* lines.
OneOrderPerCartSnapshot ==
    \A h1, h2 \in Slots :
        (/\ h1 # h2
         /\ req[h1].kind = "checkout" /\ req[h1].order_id # 0
         /\ req[h2].kind = "checkout" /\ req[h2].order_id # 0
         /\ req[h1].user_id = req[h2].user_id)
        => DOMAIN req[h1].items \cap DOMAIN req[h2].items = {}

\* C3: there is at most one carts row per user.
OneCartPerUser == \A u \in Users : Cardinality(cartsOf(u)) <= 1

\* C4: a cart never holds two lines for the same product.
OneLinePerProduct ==
    \A i, j \in DOMAIN cart_items :
        (cart_items[i].cart_id = cart_items[j].cart_id /\ cart_items[i].item_id = cart_items[j].item_id)
        => i = j

\* C5: concurrent increases of one line lose no update.  Once no request is in
\* flight, a line that only add requests (asking for an integer >= 1) have
\* touched holds the sum of what they asked for.
NoLostUpdate ==
    AllQuiet => \A i \in DOMAIN cart_items : hist[i].pure => cart_items[i].quantity = hist[i].sum

\* C6: after a series of add requests for one product, served one after the
\* other, the cart holds one line for the product, its quantity the sum of the
\* quantities asked for and its unit price the product's price at the first add.
AddSumsQuantities ==
    \A i \in DOMAIN cart_items :
        hist[i].pure =>
            /\ cart_items[i].quantity = hist[i].sum
            /\ cart_items[i].unit_price = hist[i].price0
            /\ linesFor(cart_items[i].cart_id, cart_items[i].item_id) = {i}

\* C6's case: a line that two add requests built, the product's price changed since.
AddSumsQuantitiesWitness ==
    \E i \in DOMAIN cart_items :
        /\ hist[i].pure
        /\ hist[i].sum > MaxQty
        /\ cart_items[i].unit_price # products[cart_items[i].item_id].price

\* C7: the unit price of a cart line never changes while the line exists.
UnitPriceNeverChanges ==
    [][\A i \in DOMAIN cart_items \cap DOMAIN cart_items' :
            cart_items'[i].unit_price = cart_items[i].unit_price]_vars

\* C7's case: an add request was merged into a line whose product has another
\* price by now.
UnitPriceNeverChangesWitness ==
    \E h \in Slots :
        /\ req[h].kind = "add" /\ req[h].pc = "done" /\ req[h].res.status = 200
        /\ req[h].res.id \in DOMAIN cart_items
        /\ cart_items[req[h].res.id].unit_price # products[cart_items[req[h].res.id].item_id].price

\* C8: the total a view returns is the sum of unit_price x quantity over all the
\* lines stored in the user's cart.
ViewTotalSumsAllLines ==
    [][\A h \in Slots :
        (req[h].pc = "viewItems" /\ req'[h].pc = "done")
        => req'[h].res.total = toFixed2(SumOver(cart_items, linesOf(req[h].cart_id)))]_vars

\* C9: with no concurrent activity, the order a checkout creates has the total
\* a view of the cart returns at that moment, and the checkout leaves the cart
\* without lines.
OrderTotalEqualsViewTotal ==
    [][\A h \in Slots :
        /\ (req[h].pc = "orderInsert" /\ req'[h].pc = "orderLines")
            => toFixed2(orders'[Len(orders')].total_amount) = toFixed2(viewTotal(req[h].cart_id))
        /\ (req[h].pc = "orderClear" /\ req'[h].pc = "done")
            => \A i \in DOMAIN cart_items' : cart_items'[i].cart_id # req[h].cart_id]_vars

\* C10: a checkout that finds no carts row or no cart line replies 400 in that
\* step and changes no table.
EmptyCartCheckoutRejected ==
    [][\A h \in Slots :
        (/\ req'[h] # req[h]
         /\ \/ req[h].pc = "orderCart" /\ cartsOf(req[h].user_id) = {}
            \/ req[h].pc = "orderItems" /\ linesOf(req[h].cart_id) = {})
        => /\ req'[h].pc = "done"
           /\ req'[h].res.status = 400
           /\ req'[h].res.error \in {"No cart found", "Cart is empty"}
           /\ <<products, carts, cart_items, orders, order_items>>'
                = <<products, carts, cart_items, orders, order_items>>]_vars

\* C10's case: a checkout of a cart that exists and has no lines was rejected,
\* and no order exists.
EmptyCartCheckoutRejectedWitness ==
    \E h \in Slots :
        /\ req[h].kind = "checkout" /\ req[h].pc = "done"
        /\ req[h].res.status = 400 /\ req[h].res.error = "Cart is empty"
        /\ cartsOf(req[h].user_id) # {}
        /\ orders = <<>>
\* The items of an order with unit_price read from the product row.
orderItemsAtProductPrice(order_id) ==
    LET rows == {k \in linesOfOrder(order_items, order_id) : order_items[k].item_id \in DOMAIN products}
    IN  [k \in rows |-> [order_items[k] EXCEPT !.unit_price = products[order_items[k].item_id].price]]

\* GET /api/orders, the items of one order: SELECT oi.*, p.title, p.image_url
\* FROM order_items oi JOIN products p ON oi.item_id = p.item_id WHERE oi.order_id = ?
orderItemsOf(order_id) ==
    LET rows == {k \in linesOfOrder(order_items, order_id) : order_items[k].item_id \in DOMAIN products}
    IN  [k \in rows |-> order_items[k]]

\* C11: a checkout that succeeds creates one order, Placed and owned by the
\* caller, and one order line per line of the cart, with the line's product,
\* quantity and unit price.  The steps of a checkout add no order but the one
\* its INSERT creates, and in the step that ends it with 201 the order lines of
\* its order match the cart lines one to one.
CheckoutCreatesOrderAndLines ==
    [][\A h \in Slots :
        (req[h].kind = "checkout" /\ req'[h] # req[h] /\ ~Quiet(h)) =>
            /\ IF req[h].pc = "orderInsert" /\ req'[h].pc = "orderLines"
               THEN /\ Len(orders') = Len(orders) + 1
                    /\ \A o \in 1..Len(orders) : orders'[o] = orders[o]
                    /\ req'[h].order_id = Len(orders')
               ELSE orders' = orders
            /\ (req'[h].pc = "done" /\ req'[h].res.status = 201) =>
                LET o == req'[h].res.id
                    cart == linesOf(req[h].cart_id)
                    lines == linesOfOrder(order_items', o)
                IN  /\ o \in 1..Len(orders')
                    /\ orders'[o].order_status = "Placed"
                    /\ orders'[o].user_id = req[h].user_id
                    /\ cart # {}
                    /\ \E f \in [cart -> lines] :
                        /\ \A k \in lines : \E i \in cart : f[i] = k
                        /\ \A i, j \in cart : f[i] = f[j] => i = j
                        /\ \A i \in cart :
                            /\ order_items'[f[i]].item_id = cart_items[i].item_id
                            /\ order_items'[f[i]].quantity = cart_items[i].quantity
                            /\ order_items'[f[i]].unit_price = cart_items[i].unit_price]_vars

\* C11's case: a checkout of a cart of two lines has succeeded.
CheckoutCreatesOrderAndLinesWitness ==
    \E h \in Slots :
        /\ req[h].kind = "checkout" /\ req[h].pc = "done" /\ req[h].res.status = 201
        /\ Cardinality(linesOfOrder(order_items, req[h].res.id)) = 2
\* C12: orders are isolated from the catalog.  A product update or a product
\* delete, carried out or rejected, changes no row of orders and of order_items
\* and nothing of the items GET /api/orders returns for an order.
ProductChangeKeepsOrders ==
    [][(/\ req' = req
        /\ \/ \E id \in Products \cup {NoSuchItem}, price \in Prices \cup {0}, available \in {0, 1} :
                AdminUpdateProduct(id, price, available)
           \/ \E id \in Products \cup {NoSuchItem} : AdminDeleteProduct(id))
       => /\ orders' = orders
          /\ order_items' = order_items
          /\ \A o \in 1..Len(orders) : orderItemsOf(o)' = orderItemsOf(o)]_vars

\* C12's case: the first request added a line, the second was the checkout, and
\* the product of the order line has another price or is unavailable since.
ProductChangeKeepsOrdersWitness ==
    \E k \in 1..Len(order_items) :
        /\ orders[order_items[k].order_id].order_date = 2
        /\ k \in DOMAIN orderItemsOf(order_items[k].order_id)
        /\ \/ products[order_items[k].item_id].price # order_items[k].unit_price
           \/ products[order_items[k].item_id].available = 0
\* The order lines of an order, as rows.
orderLineRows(table, order_id) == [k \in linesOfOrder(table, order_id) |-> table[k]]

\* C13: orders are immutable but for their status.  No step removes an order; a
\* step adds an order only as the INSERT of a checkout; no step changes the
\* total, the owner or the date of an order, nor the order lines of an order
\* whose checkout is not inserting them at that moment; a status changes only in
\* the step of a status request answered 200, which changes the one order it
\* names and no order line.  (A step that leaves orders and order_items as they
\* are meets all of this.)
OrdersImmutableButStatus ==
    [][\/ orders' = orders /\ order_items' = order_items
       \/ /\ Len(orders') >= Len(orders)
          /\ Len(orders') > Len(orders) =>
                /\ Len(orders') = Len(orders) + 1
                /\ \E h \in Slots :
                    req[h].kind = "checkout" /\ req[h].pc = "orderInsert" /\ req'[h].pc = "orderLines"
          /\ \A o \in 1..Len(orders) :
                /\ orders'[o].total_amount = orders[o].total_amount
                /\ orders'[o].user_id = orders[o].user_id
                /\ orders'[o].order_date = orders[o].order_date
                /\ (\A h \in Slots : ~(req[h].pc = "orderLines" /\ req[h].order_id = o))
                    => orderLineRows(order_items', o) = orderLineRows(order_items, o)
          /\ LET changed == {o \in 1..Len(orders) : orders'[o].order_status # orders[o].order_status}
             IN  changed # {} =>
                    /\ Len(orders') = Len(orders)
                    /\ order_items' = order_items
                    /\ nreq' = nreq + 1
                    /\ \E h \in Slots :
                        /\ req'[h].kind = "setStatus" /\ req'[h].pc = "done"
                        /\ req'[h].res.status = 200
                        /\ changed = {req'[h].res.id}]_vars

\* C13's case: an order a checkout created has been given another status.
OrdersImmutableButStatusWitness ==
    \E o \in 1..Len(orders) :
        /\ orders[o].order_date > 0
        /\ orders[o].order_status # "Placed"
        /\ linesOfOrder(order_items, o) # {}

\* C14: a status request whose order_status is none of the five recognized
\* values, or is absent, is answered 400 'Invalid order status' and changes no
\* order, whether its order id names an order or not.
InvalidStatusRejected ==
    [][\A h \in Slots, u \in Admins, orderId \in 1..(Len(orders) + 1), order_status \in BodyStatuses :
        (/\ order_status \notin {"Placed", "Preparing", "Ready", "Delivered", "Cancelled"}
         /\ SetStatus(h, u, orderId, order_status))
        => /\ req'[h].res.status = 400
           /\ req'[h].res.error = "Invalid order status"
           /\ orders' = orders]_vars

\* C14's case: a status request was answered 400 while orders exist.
InvalidStatusRejectedWitness ==
    \E h \in Slots :
        /\ req[h].kind = "setStatus" /\ req[h].pc = "done"
        /\ req[h].res.status = 400 /\ req[h].res.error = "Invalid order status"
        /\ Len(orders) > 0

\* C15: a status request with a recognized status for an order id that names no
\* order is answered 404 'Order not found', adds no order and changes none.
UnknownOrderRejected ==
    [][\A h \in Slots, u \in Admins, orderId \in 1..(Len(orders) + 1), order_status \in BodyStatuses :
        (/\ order_status \in {"Placed", "Preparing", "Ready", "Delivered", "Cancelled"}
         /\ orderId \notin 1..Len(orders)
         /\ SetStatus(h, u, orderId, order_status))
        => /\ req'[h].res.status = 404
           /\ req'[h].res.error = "Order not found"
           /\ orders' = orders]_vars

\* C15's case: a status request was answered 404 while orders exist.
UnknownOrderRejectedWitness ==
    \E h \in Slots :
        /\ req[h].kind = "setStatus" /\ req[h].pc = "done"
        /\ req[h].res.status = 404 /\ req[h].res.error = "Order not found"
        /\ Len(orders) > 0

\* C16: status transitions are unconstrained.  A status request with a
\* recognized status for an existing order is answered 200 and leaves the order
\* in that status, whatever its status was.
AnyStatusTransitionAccepted ==
    [][\A h \in Slots, u \in Admins, orderId \in 1..Len(orders), order_status \in BodyStatuses :
        (/\ order_status \in {"Placed", "Preparing", "Ready", "Delivered", "Cancelled"}
         /\ SetStatus(h, u, orderId, order_status))
        => /\ req'[h].res.status = 200
           /\ req'[h].res.id = orderId
           /\ orders'[orderId].order_status = order_status]_vars

\* C16's case: the first sample order, Delivered at the start, was set to Placed
\* by a request answered 200.
AnyStatusTransitionAcceptedWitness ==
    \E h \in Slots :
        /\ req[h].kind = "setStatus" /\ req[h].pc = "done"
        /\ req[h].res.status = 200 /\ req[h].res.id = 1
        /\ SampleOrders[1].order_status = "Delivered"
        /\ orders[1].order_status = "Placed"

\* C17: the status of an order changes along the documented graph only, and
\* never once it is Delivered or Cancelled.
StatusFollowsGraph ==
    [][\A o \in 1..Len(orders) :
        orders'[o].order_status # orders[o].order_status
        => <<orders[o].order_status, orders'[o].order_status>> \in statusGraph]_vars
\* The cart line exists and is in a cart of the user.
lineOfUser(cart_item_id, user_id) ==
    /\ cart_item_id \in DOMAIN cart_items
    /\ carts[cart_items[cart_item_id].cart_id].user_id = user_id

\* C18: a quantity request for a line of the caller's cart is answered 200; with
\* a quantity <= 0 it deletes that line and no other, so that no view has it
\* any more, and with a quantity >= 1 it sets the quantity of that line and
\* changes nothing else of the cart lines.
SetQuantitySetsOrDeletes ==
    [][\A h \in Slots :
        (/\ req[h].kind = "setQuantity" /\ ~Quiet(h) /\ req'[h] # req[h]
         /\ lineOfUser(req[h].cart_item_id, req[h].user_id))
        => LET id == req[h].cart_item_id
               q == req[h].qty
           IN  IF req'[h].pc # "done"
               THEN cart_items' = cart_items
               ELSE /\ req'[h].res.status = 200
                    /\ IF q <= 0
                       THEN /\ cart_items' = Restrict(cart_items, DOMAIN cart_items \ {id})
                            /\ req'[h].res.deleted
                            /\ \A c \in 1..Len(carts) : id \notin viewRows(c)'
                       ELSE /\ cart_items' = [cart_items EXCEPT ![id].quantity = q]
                            /\ req'[h].res.quantity = q]_vars

\* C18's case: a quantity request deleted one line of a cart and the other line
\* is there.
SetQuantitySetsOrDeletesWitness ==
    \E h \in Slots :
        /\ req[h].kind = "setQuantity" /\ req[h].pc = "done" /\ req[h].res.deleted
        /\ next_cart_item_id = 3
        /\ Cardinality(DOMAIN cart_items) = 1

\* C19: a quantity request or a remove request for a line that does not exist
\* or is in another user's cart changes no cart line and is answered 404 'Cart
\* item not found'.
ForeignLineNotFound ==
    [][\A h \in Slots :
        (/\ req[h].kind \in {"setQuantity", "remove"} /\ ~Quiet(h) /\ req'[h] # req[h]
         /\ ~lineOfUser(req[h].cart_item_id, req[h].user_id))
        => /\ cart_items' = cart_items
           /\ req'[h].pc \notin {"setDelete", "setUpdate"}
           /\ req'[h].pc = "done" =>
                /\ req'[h].res.status = 404
                /\ req'[h].res.error = "Cart item not found"]_vars

\* C19's case: a request of one user for a line of the other user's cart was
\* answered 404, and the line is there.
ForeignLineNotFoundWitness ==
    \E h \in Slots :
        /\ req[h].kind \in {"setQuantity", "remove"} /\ req[h].pc = "done"
        /\ req[h].res.status = 404
        /\ req[h].cart_item_id \in DOMAIN cart_items
        /\ ~lineOfUser(req[h].cart_item_id, req[h].user_id)

\* C20: an add request for a product that has no row or is not available adds
\* no cart line, changes no cart line and is answered 404.
UnavailableProductNotAdded ==
    [][\A h \in Slots :
        (/\ req[h].kind = "add" /\ ~Quiet(h) /\ req'[h] # req[h]
         /\ ~(req[h].item_id \in DOMAIN products /\ products[req[h].item_id].available = 1))
        => /\ cart_items' = cart_items
           /\ next_cart_item_id' = next_cart_item_id
           /\ req'[h].pc \notin {"addExisting", "addUpdate", "addInsert"}
           /\ req'[h].pc = "done" =>
                /\ req'[h].res.status = 404
                /\ req'[h].res.error = "Product not found or unavailable"]_vars

\* C20's case: an add request for a product was answered 404 while the product
\* is unavailable and the cart holds a line for it.
UnavailableProductNotAddedWitness ==
    \E h \in Slots :
        /\ req[h].kind = "add" /\ req[h].pc = "done" /\ req[h].res.status = 404
        /\ req[h].item_id \in DOMAIN products
        /\ products[req[h].item_id].available = 0
        /\ \E i \in DOMAIN cart_items :
            /\ cart_items[i].item_id = req[h].item_id
            /\ carts[cart_items[i].cart_id].user_id = req[h].user_id
\* C21: every cart line holds an integer quantity of at least 1, whatever the
\* add, setQuantity, remove and clear requests asked for.
QuantityAtLeastOne ==
    \A i \in DOMAIN cart_items : cart_items[i].quantity \in Nat \ {0}

\* C21's case: a line survives requests that asked outside the contract (an add
\* with a missing, zero, negative or non-numeric quantity, or a setQuantity).
QuantityAtLeastOneWitness ==
    \E i \in DOMAIN cart_items : ~hist[i].pure /\ cart_items[i].quantity >= 1

\* The lines of a cart whose product is no longer available.
unavailableLines(cart_id) ==
    {i \in linesOf(cart_id) : /\ cart_items[i].item_id \in DOMAIN products
                              /\ products[cart_items[i].item_id].available = 0}

\* C22: availability is not checked again at checkout.  The items query of a
\* checkout takes the lines of unavailable products with the others and totals
\* them all, and the step that ends the checkout with 201 leaves an order line
\* with the quantity and unit price of each such line, in an order whose total
\* is the sum over every line of the cart.
AvailabilityNotRecheckedAtCheckout ==
    [][\A h \in Slots :
        (req[h].kind = "checkout" /\ req'[h] # req[h] /\ unavailableLines(req[h].cart_id) # {}) =>
            LET cart == linesOf(req[h].cart_id)
                off == unavailableLines(req[h].cart_id)
            IN  /\ req[h].pc = "orderItems" =>
                    /\ req'[h].pc = "orderInsert"
                    /\ off \subseteq DOMAIN req'[h].items
                    /\ req'[h].total = SumOver(cart_items, cart)
                /\ (req[h].pc = "orderClear" /\ req'[h].res.status = 201) =>
                    LET o == req'[h].res.id
                    IN  /\ orders'[o].total_amount = SumOver(cart_items, cart)
                        /\ \A i \in off : \E k \in linesOfOrder(order_items', o) :
                            /\ order_items'[k].item_id = cart_items[i].item_id
                            /\ order_items'[k].quantity = cart_items[i].quantity
                            /\ order_items'[k].unit_price = cart_items[i].unit_price]_vars

\* C22's case: a checkout has succeeded and its order holds a line of a product
\* that is not available.
AvailabilityNotRecheckedAtCheckoutWitness ==
    \E h \in Slots :
        /\ req[h].kind = "checkout" /\ req[h].pc = "done" /\ req[h].res.status = 201
        /\ \E k \in linesOfOrder(order_items, req[h].res.id) :
            products[order_items[k].item_id].available = 0

\* C26: a checkout discards no cart content it did not record.  Every cart line
\* that the cart-clearing step of a checkout deletes has an order line of the
\* checkout's order with the same product and the same quantity.
CheckoutClearsOnlyRecorded ==
    [][\A h \in Slots :
        (req[h].kind = "checkout" /\ req[h].pc = "orderClear" /\ req'[h].res.status = 201) =>
            \A i \in linesOf(req[h].cart_id) :
                \E k \in linesOfOrder(order_items, req[h].order_id) :
                    /\ order_items[k].item_id = cart_items[i].item_id
                    /\ order_items[k].quantity = cart_items[i].quantity]_vars

\* The slot a request that arrives in this step is served in.
arrives(h) == nreq' # nreq /\ CanStart(h)

\* C24: a request to a token-protected route that carries no token or an
\* invalid one is answered 401 and changes nothing that is stored.
NoTokenRejected401 ==
    [][\A h \in Slots :
        (arrives(h) /\ req'[h].auth \in {"none", "bearer", "forged"}) =>
            /\ req'[h].res.status = 401
            /\ UNCHANGED <<products, carts, cart_items, orders, order_items, users, catalog>>]_vars

\* C25: only admins change an order's status or list all orders.  A request to
\* one of the two routes with a valid token of a user who is no admin is answered
\* 403 and changes no order.
OnlyAdminsSetStatus ==
    [][\A h \in Slots :
        (/\ arrives(h)
         /\ req'[h].kind \in {"setStatus", "listOrders"}
         /\ req'[h].user_id \in DOMAIN users
         /\ users[req'[h].user_id].is_admin = 0) =>
            /\ req'[h].res.status = 403
            /\ orders' = orders]_vars

\* C28: revoking admin rights takes effect.  A user whose is_admin the admin
\* route has set to 0 gets 403 from every admin-only route, whatever token of
\* theirs the request carries.
RevocationTakesEffect ==
    [][\A h \in Slots :
        (/\ arrives(h)
         /\ req'[h].kind \in {"setStatus", "listOrders", "setUserAdmin"}
         /\ req'[h].user_id \in Admins \cup SeededAdmins
         /\ users[req'[h].user_id].is_admin = 0) =>
            req'[h].res.status = 403]_vars

\* C29: the system never runs out of admins.
SomeAdminRemains == \E u \in DOMAIN users : users[u].is_admin = 1

\* C27: a password-reset token is used once.  Of the reset-password requests
\* that carry one token, at most one changes the password.
ResetTokenSingleUse == \A t \in DOMAIN reset_log : reset_log[t] <= 1

\* C30: forgot-password does not tell whether an email is registered.  The
\* response to a well-formed email of a user is the response to a well-formed
\* email of nobody, whatever became of storing the token and sending the mail.
ForgotPasswordSameResponse ==
    \A h, k \in Slots :
        (/\ req[h].kind = "forgot" /\ req[h].pc = "done" /\ req[h].email \in DOMAIN users
         /\ req[k].kind = "forgot" /\ req[k].pc = "done" /\ req[k].email = NoSuchUser) =>
            req[h].res = req[k].res

\* C23: no orphaned product category references.  Every product's category
\* names a category that is active.
NoOrphanedCategory ==
    \A i \in DOMAIN product_category :
        /\ product_category[i] \in DOMAIN categories
        /\ categories[product_category[i]].is_active = 1

====
